---- MODULE Spec2Model ----
(***************************************************************************)
(* The self-correcting extraction graph of structured_ocr/llm_ocr/graph.py *)
(* as a state machine: the stages of the LangGraph StateGraph, the         *)
(* conditional edge should_continue and the corrector's field merge.       *)
(*                                                                         *)
(* The external collaborators (image filters, Document AI, the LLM calls   *)
(* made through run_llm) are modelled by their call contract in graph.py:  *)
(* a call returns some value of the requested schema.  A Player is         *)
(* modelled by its name, drawn from a pool of valid names; its numeric     *)
(* statistics take no part in the orchestration.  A player list names each *)
(* of its players once, in the order of the pool.                          *)
(***************************************************************************)
EXTENDS Integers, Sequences, FiniteSets, TLC

\* ---------------------------------------------------------------- bounds
MaxListLen == 1
MaxItems == 3
cpu_count == 2

\* ------------------------------------------------------------- constants
MAX_CORRECTION == 3
CRITERIA_PERCENTAGE == 99
CRITERIA_THRESHOLD == 7
MIN_SCORE == 0
MAX_SCORE == 10
MAX_ENEMIES == 4
MAX_SQUAD == 3
MAX_TEAMMATES == 4
MAX_TEAM_TOTAL == 3
MAX_ATTEMPTS == 3

\* Optional[...] = None
None == [none |-> TRUE]

\* --------------------------------------------------------------- schema
Range(s) == {s[i] : i \in DOMAIN s}

\* names that pass Player.validate_name
NamePool == <<"Ace", "Bo", "Cy">>

Names == Range(NamePool)

Sides == {"Heroes", "Villains"}

RECURSIVE roster(_, _)
roster(picked, i) ==
    IF i > Len(NamePool) THEN <<>>
    ELSE (IF i \in picked THEN <<NamePool[i]>> ELSE <<>>) \o roster(picked, i + 1)

PlayerLists ==
    {roster(picked, 1) :
        picked \in {p \in SUBSET (1..Len(NamePool)) : Cardinality(p) <= MaxListLen}}

\* Match: the field validators and validate_team_composition
validate_team_composition(m) ==
    /\ Len(m.enemies) <= MAX_ENEMIES
    /\ Len(m.squad) <= MAX_SQUAD
    /\ Len(m.teammates) <= MAX_TEAMMATES
    /\ m.enemies # <<>>
    /\ m.teammates # <<>>
    /\ Range(m.squad) \cap Range(m.teammates) = {}
    /\ Len(m.teammates) + Len(m.squad) <= MAX_TEAM_TOTAL
    /\ m.me \notin Range(m.teammates)
    /\ m.me \notin Range(m.squad)
    /\ m.me \notin Range(m.enemies)

MatchFields == {"side", "me", "squad", "teammates", "enemies"}

MatchShape ==
    [side : Sides, me : Names, squad : PlayerLists,
     teammates : PlayerLists, enemies : PlayerLists]

\* the values run_llm(..., schema=TARGET_SCHEMA) can return
TARGET_SCHEMA == {valid : valid \in {m \in MatchShape : validate_team_composition(m)}}

\* Criteria.model_dump() lists its entries in declaration order
CriteriaKeys ==
    <<"team_names", "highlighted_player", "player_data_accuracy",
      "grouping", "reasons">>

\* Optional[str]: the text plays no part in the orchestration
Reasons == {"text"}

CriteriaOver(scores) ==
    [team_names : scores, highlighted_player : scores,
     player_data_accuracy : scores, grouping : scores, reasons : Reasons]

\* every record the Criteria schema admits
Criteria == CriteriaOver(MIN_SCORE..MAX_SCORE)

\* the scores the scorer returns in the graph runs: just below the
\* threshold and at the threshold
ScoreValues == {CRITERIA_THRESHOLD - 1, CRITERIA_THRESHOLD}

ScorerOutputs == CriteriaOver(ScoreValues)

\* a map whose grouping entry also lists squad
CRITERIA_TO_RELATED_FIELDS_squad ==
    [k \in {"team_names", "highlighted_player", "player_data_accuracy", "grouping"} |->
        CASE k = "team_names" -> <<"side">>
          [] k = "highlighted_player" -> <<"me">>
          [] k = "player_data_accuracy" -> <<"me", "teammates", "enemies">>
          [] k = "grouping" -> <<"me", "squad", "teammates", "enemies">>]

CRITERIA_TO_RELATED_FIELDS ==
    [k \in {"team_names", "highlighted_player", "player_data_accuracy", "grouping"} |->
        CASE k = "team_names" -> <<"side">>
          [] k = "highlighted_player" -> <<"me">>
          [] k = "player_data_accuracy" -> <<"me", "teammates", "enemies">>
          [] k = "grouping" -> <<"me", "teammates", "enemies">>]

\* ---------------------------------------------------------------- state
VARIABLES
    pc,                          \* the node the graph runs next
    image_path,
    image,
    image_bytes,
    image_base64,
    ocr_text_extraction_result,
    llm_text_extraction_result,
    criteria,
    correction_attemps,
    discarded_fields,            \* fields whose regenerated value differed and was not merged by the corrector that just ran
    extraction_calls,            \* run_llm(llm=llm_ocr, ...) calls made so far
    checker_runs,                \* criteria_checker executions so far
    real_cycles,                 \* corrector invocations that regenerated and merged
    attempts,                    \* failed attempts of the node that is running
    unscored_writes,             \* writes of llm_text_extraction_result since criteria_checker last ran
    configurable,                \* the Configuration the caller or the environment supplies
    image_paths,                 \* batch_run_graph's argument
    taskqueue,                   \* indices of the items no worker has taken yet
    running,                     \* the item each pool worker is running (0: none)
    outqueue,                    \* outcomes the workers have put, not yet handled
    unsorted,                    \* imap: outcomes that arrived ahead of their turn
    items,                       \* imap: outcomes ready for next(), in index order
    index,                       \* imap: the index whose outcome is awaited
    results,                     \* the list batch_run_graph is building
    batch_pc,                    \* where batch_run_graph stands
    overtaken                    \* some outcome arrived ahead of its turn

batch ==
    <<image_paths, taskqueue, running, outqueue, unsorted, items, index,
      results, batch_pc, overtaken>>

graph_state ==
    <<pc, image_path, image, image_bytes, image_base64,
      ocr_text_extraction_result, llm_text_extraction_result, criteria,
      correction_attemps, discarded_fields, extraction_calls, checker_runs,
      real_cycles, attempts, unscored_writes>>

vars == <<graph_state, configurable, batch>>

\* what no node of the graph reads or writes
outside == <<configurable, batch>>

inputs == <<image_path, image, image_bytes, image_base64, ocr_text_extraction_result>>
counters == <<extraction_calls, checker_runs, real_cycles>>

\* ------------------------------------------------------------- helpers
is_criterion(key, value) == key # "reasons" /\ value \in Int

RECURSIVE SumSeq(_)
SumSeq(s) == IF s = <<>> THEN 0 ELSE Head(s) + SumSeq(Tail(s))

\* should_continue, line 196
valid_scores(crit) ==
    [i \in 1..Len(CriteriaKeys) |->
        IF is_criterion(CriteriaKeys[i], crit[CriteriaKeys[i]])
           /\ crit[CriteriaKeys[i]] >= CRITERIA_THRESHOLD
        THEN 1 ELSE 0]

\* the reasons entry left out of the denominator
percentage_met_scorable(crit) ==
    (SumSeq(valid_scores(crit)) * 100) \div (Len(valid_scores(crit)) - 1)

\* should_continue, line 198: sum / len * 100 (len is 5, so the quotient
\* times 100 is a whole number up to float rounding)
percentage_met(crit) ==
    (SumSeq(valid_scores(crit)) * 100) \div Len(valid_scores(crit))

\* the budget test written with > instead of >=
should_continue_gt(attemps, crit) ==
    IF attemps > MAX_CORRECTION THEN "valid"
    ELSE IF percentage_met(crit) > CRITERIA_PERCENTAGE THEN "valid" ELSE "invalid"

should_continue(attemps, crit) ==
    IF attemps >= MAX_CORRECTION THEN "valid"
    ELSE IF percentage_met(crit) > CRITERIA_PERCENTAGE THEN "valid" ELSE "invalid"

\* list(dict.fromkeys(xs)): duplicates removed, first occurrence kept
RECURSIVE dedupe(_, _)
dedupe(xs, seen) ==
    IF xs = <<>> THEN <<>>
    ELSE IF Head(xs) \in seen THEN dedupe(Tail(xs), seen)
    ELSE <<Head(xs)>> \o dedupe(Tail(xs), seen \cup {Head(xs)})

\* a score equal to the threshold taken as failing
RECURSIVE extend_failing_le(_, _)
extend_failing_le(crit, i) ==
    IF i > Len(CriteriaKeys) THEN <<>>
    ELSE LET k == CriteriaKeys[i] IN
         (IF is_criterion(k, crit[k]) /\ crit[k] <= CRITERIA_THRESHOLD
             /\ k \in DOMAIN CRITERIA_TO_RELATED_FIELDS
          THEN CRITERIA_TO_RELATED_FIELDS[k] ELSE <<>>)
         \o extend_failing_le(crit, i + 1)

RECURSIVE extend_failing(_, _)
extend_failing(crit, i) ==
    IF i > Len(CriteriaKeys) THEN <<>>
    ELSE LET k == CriteriaKeys[i] IN
         (IF is_criterion(k, crit[k]) /\ crit[k] < CRITERIA_THRESHOLD
             /\ k \in DOMAIN CRITERIA_TO_RELATED_FIELDS
          THEN CRITERIA_TO_RELATED_FIELDS[k] ELSE <<>>)
         \o extend_failing(crit, i + 1)

\* corrector, lines 131-138 (the extended list is bound once, as the
\* local variable is, before duplicates are removed)
fields_to_correct(crit) ==
    IF crit = None THEN <<>>
    ELSE CHOOSE fields \in {dedupe(extended, {}) : extended \in {extend_failing(crit, 1)}} : TRUE

\* the regenerated result taken wholesale
merge_fields_all(current, corrected, fields) ==
    [f \in DOMAIN current |-> IF f \in DOMAIN corrected THEN corrected[f] ELSE current[f]]

\* corrector, lines 140 and 171-173: copy, then setattr the listed fields
merge_fields(current, corrected, fields) ==
    [f \in DOMAIN current |->
        IF f \in Range(fields) /\ f \in DOMAIN corrected
        THEN corrected[f] ELSE current[f]]

\* a real cycle that forgets the increment
next_correction_attemps_stuck(attemps, fields) ==
    IF fields # <<>> THEN attemps ELSE MAX_CORRECTION + 1

\* a real cycle that counts twice
next_correction_attemps_by2(attemps, fields) ==
    IF fields # <<>> THEN attemps + 2 ELSE MAX_CORRECTION + 1

\* a short-circuit whose sentinel is one too high
next_correction_attemps_high(attemps, fields) ==
    IF fields # <<>> THEN attemps + 1 ELSE MAX_CORRECTION + 2

\* a short-circuit whose sentinel is MAX_CORRECTION itself
next_correction_attemps_low(attemps, fields) ==
    IF fields # <<>> THEN attemps + 1 ELSE MAX_CORRECTION

\* a short-circuit that leaves the counter alone
next_correction_attemps_keep(attemps, fields) ==
    IF fields # <<>> THEN attemps + 1 ELSE attemps

\* corrector, lines 175-178
next_correction_attemps(attemps, fields) ==
    IF fields # <<>> THEN attemps + 1 ELSE MAX_CORRECTION + 1

\* ----------------------------------------------------------------- Init
\* Configuration(): the defaults of configuration.py
Configuration ==
    [max_correction |-> 3, criteria_met_perc |-> 80, criterion_score_threshold |-> 7]

\* Configurations a caller can supply: max_correction overridden
ConfigurationSurface ==
    [max_correction : 1..MAX_CORRECTION,
     criteria_met_perc : {Configuration.criteria_met_perc},
     criterion_score_threshold : {Configuration.criterion_score_threshold}]

\* no batch is running
NoBatch ==
    /\ image_paths = <<>>
    /\ taskqueue = <<>>
    /\ running = <<>>
    /\ outqueue = <<>>
    /\ unsorted = {}
    /\ items = <<>>
    /\ index = 1
    /\ results = <<>>
    /\ batch_pc = "idle"
    /\ overtaken = FALSE

\* graph.invoke({"image_path": image_path}): every other field at its default
InitGraphState ==
    /\ pc = "image_preprocessing"
    /\ image_path = "image"
    /\ image = None
    /\ image_bytes = None
    /\ image_base64 = None
    /\ ocr_text_extraction_result = None
    /\ llm_text_extraction_result = None
    /\ criteria = None
    /\ correction_attemps = 0
    /\ discarded_fields = {}
    /\ extraction_calls = 0
    /\ checker_runs = 0
    /\ real_cycles = 0
    /\ attempts = 0
    /\ unscored_writes = 0

Init ==
    /\ InitGraphState
    /\ configurable = Configuration
    /\ NoBatch

\* -------------------------------------------------------------- actions
image_preprocessing ==
    /\ pc = "image_preprocessing"
    /\ image' = [of |-> image_path]
    /\ pc' = "format_conversion"
    /\ UNCHANGED <<image_path, image_bytes, image_base64, ocr_text_extraction_result,
                   llm_text_extraction_result, criteria, correction_attemps,
                   discarded_fields, counters, unscored_writes, outside>>
    /\ attempts' = 0

\* the conversion also returning the image it converted
format_conversion_returns_image ==
    /\ pc = "format_conversion"
    /\ image' = [converted |-> image]
    /\ image_bytes' = [bytes_of |-> image]
    /\ image_base64' = [base64_of |-> image]
    /\ pc' = "ocr_text_extraction"
    /\ UNCHANGED <<image_path, ocr_text_extraction_result,
                   llm_text_extraction_result, criteria, correction_attemps,
                   discarded_fields, counters, unscored_writes, outside>>
    /\ attempts' = 0

format_conversion ==
    /\ pc = "format_conversion"
    /\ image_bytes' = [bytes_of |-> image]
    /\ image_base64' = [base64_of |-> image]
    /\ pc' = "ocr_text_extraction"
    /\ UNCHANGED <<image_path, image, ocr_text_extraction_result,
                   llm_text_extraction_result, criteria, correction_attemps,
                   discarded_fields, counters, unscored_writes, outside>>
    /\ attempts' = 0

ocr_text_extraction ==
    /\ pc = "ocr_text_extraction"
    /\ ocr_text_extraction_result' = [document_of |-> image_bytes]
    /\ pc' = "llm_text_extraction"
    /\ UNCHANGED <<image_path, image, image_bytes, image_base64,
                   llm_text_extraction_result, criteria, correction_attemps,
                   discarded_fields, counters, unscored_writes, outside>>
    /\ attempts' = 0

llm_text_extraction ==
    /\ pc = "llm_text_extraction"
    /\ \E m \in TARGET_SCHEMA : llm_text_extraction_result' = m
    /\ extraction_calls' = extraction_calls + 1
    /\ pc' = "criteria_checker"
    /\ unscored_writes' = unscored_writes + 1
    /\ attempts' = 0
    /\ UNCHANGED <<inputs, criteria, correction_attemps, discarded_fields,
                   checker_runs, real_cycles, outside>>

criteria_checker ==
    /\ pc = "criteria_checker"
    /\ \E c \in ScorerOutputs : criteria' = c
    /\ checker_runs' = checker_runs + 1
    /\ discarded_fields' = {}
    /\ pc' = "should_continue"
    /\ unscored_writes' = 0
    /\ attempts' = 0
    /\ UNCHANGED <<inputs, llm_text_extraction_result, correction_attemps,
                   extraction_calls, real_cycles, outside>>

\* the "invalid" branch wired back to criteria_checker
conditional_edge_rewired ==
    /\ pc = "should_continue"
    /\ pc' = IF should_continue(correction_attemps, criteria) = "valid"
             THEN "END" ELSE "criteria_checker"
    /\ UNCHANGED <<inputs, llm_text_extraction_result, criteria, correction_attemps,
                   discarded_fields, counters, attempts, unscored_writes, outside>>

\* the two branches of the mapping exchanged
conditional_edge_swapped ==
    /\ pc = "should_continue"
    /\ pc' = IF should_continue(correction_attemps, criteria) = "valid"
             THEN "corrector" ELSE "END"
    /\ UNCHANGED <<inputs, llm_text_extraction_result, criteria, correction_attemps,
                   discarded_fields, counters, attempts, unscored_writes, outside>>

\* the conditional edge out of criteria_checker
conditional_edge ==
    /\ pc = "should_continue"
    /\ pc' = IF should_continue(correction_attemps, criteria) = "valid"
             THEN "END" ELSE "corrector"
    /\ UNCHANGED <<inputs, llm_text_extraction_result, criteria, correction_attemps,
                   discarded_fields, counters, attempts, unscored_writes, outside>>

\* the corrector wired straight back to the decision
corrector_edge_unscored == "should_continue"

\* builder.add_edge("corrector", "criteria_checker")
corrector_edge == "criteria_checker"

\* the early return tested with > instead of >=
corrector_budget_gt ==
    /\ pc = "corrector"
    /\ IF correction_attemps > MAX_CORRECTION
       THEN UNCHANGED <<llm_text_extraction_result, correction_attemps,
                        discarded_fields, extraction_calls, real_cycles>>
       ELSE \E fields \in {fields_to_correct(criteria)} :
            IF fields # <<>>
            THEN /\ \E corrected \in TARGET_SCHEMA :
                       /\ llm_text_extraction_result' =
                              merge_fields(llm_text_extraction_result, corrected, fields)
                       /\ discarded_fields' =
                              {f \in MatchFields \ Range(fields) :
                                  corrected[f] # llm_text_extraction_result[f]}
                 /\ correction_attemps' = next_correction_attemps(correction_attemps, fields)
                 /\ extraction_calls' = extraction_calls + 1
                 /\ real_cycles' = real_cycles + 1
            ELSE /\ correction_attemps' = next_correction_attemps(correction_attemps, fields)
                 /\ UNCHANGED <<llm_text_extraction_result, discarded_fields,
                                extraction_calls, real_cycles>>
    /\ pc' = corrector_edge
    /\ unscored_writes' = unscored_writes + 1
    /\ attempts' = 0
    /\ UNCHANGED <<inputs, criteria, checker_runs, outside>>

corrector ==
    /\ pc = "corrector"
    /\ IF correction_attemps >= MAX_CORRECTION
       THEN UNCHANGED <<llm_text_extraction_result, correction_attemps,
                        discarded_fields, extraction_calls, real_cycles>>
       ELSE \E fields \in {fields_to_correct(criteria)} :
            IF fields # <<>>
            THEN /\ \E corrected \in TARGET_SCHEMA :
                       /\ llm_text_extraction_result' =
                              merge_fields(llm_text_extraction_result, corrected, fields)
                       /\ discarded_fields' =
                              {f \in MatchFields \ Range(fields) :
                                  corrected[f] # llm_text_extraction_result[f]}
                 /\ correction_attemps' = next_correction_attemps(correction_attemps, fields)
                 /\ extraction_calls' = extraction_calls + 1
                 /\ real_cycles' = real_cycles + 1
            ELSE /\ correction_attemps' = next_correction_attemps(correction_attemps, fields)
                 /\ UNCHANGED <<llm_text_extraction_result, discarded_fields,
                                extraction_calls, real_cycles>>
    /\ pc' = corrector_edge
    /\ unscored_writes' = unscored_writes + 1
    /\ attempts' = 0
    /\ UNCHANGED <<inputs, criteria, checker_runs, outside>>

Next ==
    \/ image_preprocessing
    \/ format_conversion
    \/ ocr_text_extraction
    \/ llm_text_extraction
    \/ criteria_checker
    \/ conditional_edge
    \/ corrector

Spec == Init /\ [][Next]_vars

\* the graph runs a ready node: a run that can take a step takes one
FairSpec == Spec /\ WF_vars(Next)

\* ------------------------------------------------------ failing stages
\* A stage's call raises a transient error (timeout, rate limit, lost
\* connection).  The nodes added with retry=RetryPolicy(max_attempts=3) are
\* run again until max_attempts attempts have failed; a node added without
\* a policy is not.  A failed attempt writes nothing to the state.
Nodes ==
    {"image_preprocessing", "format_conversion", "ocr_text_extraction",
     "llm_text_extraction", "criteria_checker", "corrector"}

retry ==
    [node \in {"llm_text_extraction", "criteria_checker", "corrector"} |->
        [max_attempts |-> MAX_ATTEMPTS]]

\* a policy that allows one attempt more
after_failure_extra(node, failed) ==
    IF node \in DOMAIN retry /\ failed <= retry[node].max_attempts
    THEN node ELSE "FAILED"

\* where the run stands once `failed` attempts of node have failed
after_failure(node, failed) ==
    IF node \in DOMAIN retry /\ failed < retry[node].max_attempts
    THEN node ELSE "FAILED"

\* a corrector that counts the attempt before its call raises
node_raises_counted ==
    /\ pc \in Nodes
    /\ attempts' = attempts + 1
    /\ pc' = after_failure(pc, attempts + 1)
    /\ correction_attemps' =
          IF pc = "corrector" THEN correction_attemps + 1 ELSE correction_attemps
    /\ UNCHANGED <<inputs, llm_text_extraction_result, criteria,
                   discarded_fields, counters, unscored_writes, outside>>

node_raises ==
    /\ pc \in Nodes
    /\ attempts' = attempts + 1
    /\ pc' = after_failure(pc, attempts + 1)
    /\ UNCHANGED <<inputs, llm_text_extraction_result, criteria, correction_attemps,
                   discarded_fields, counters, unscored_writes, outside>>

NextRetry ==
    \/ Next
    \/ node_raises

SpecRetry == Init /\ [][NextRetry]_vars

\* --------------------------------------------- a caller-supplied config
\* the graph run under a Configuration the caller overrides; no node of
\* graph.py reads it
InitConfigured ==
    /\ InitGraphState
    /\ configurable \in ConfigurationSurface
    /\ NoBatch

SpecConfigured == InitConfigured /\ [][Next]_vars

\* ------------------------------------------------------ corrector alone
\* a GraphState handed to the corrector after the first scoring: any
\* Criteria record the schema admits (should_continue sends every one of
\* them to the corrector while the budget is unspent)
InitCorrector ==
    /\ pc = "corrector"
    /\ image_path = "image"
    /\ image = [of |-> image_path]
    /\ image_bytes = [bytes_of |-> image]
    /\ image_base64 = [base64_of |-> image]
    /\ ocr_text_extraction_result = [document_of |-> image_bytes]
    /\ llm_text_extraction_result = CHOOSE m \in TARGET_SCHEMA : TRUE
    /\ criteria \in Criteria
    /\ correction_attemps = 0
    /\ discarded_fields = {}
    /\ extraction_calls = 1
    /\ checker_runs = 1
    /\ real_cycles = 0
    /\ attempts = 0
    /\ unscored_writes = 0
    /\ configurable = Configuration
    /\ NoBatch

NextCorrector == corrector

SpecCorrector == InitCorrector /\ [][NextCorrector]_vars

\* the corrector called with the budget spent: should_continue never sends
\* such a state to it, so the early return is reached by a direct call only
InitCorrectorSpent ==
    /\ pc = "corrector"
    /\ image_path = "image"
    /\ image = [of |-> image_path]
    /\ image_bytes = [bytes_of |-> image]
    /\ image_base64 = [base64_of |-> image]
    /\ ocr_text_extraction_result = [document_of |-> image_bytes]
    /\ llm_text_extraction_result \in TARGET_SCHEMA
    /\ criteria \in ScorerOutputs
    /\ correction_attemps \in MAX_CORRECTION..(MAX_CORRECTION + 1)
    /\ discarded_fields = {}
    /\ extraction_calls = 1
    /\ checker_runs = 1
    /\ real_cycles = 0
    /\ attempts = 0
    /\ unscored_writes = 0
    /\ configurable = Configuration
    /\ NoBatch

SpecCorrectorSpent == InitCorrectorSpent /\ [][NextCorrector]_vars

\* ------------------------------------------------ should_continue alone
\* a GraphState handed to should_continue directly: any Criteria record
\* the schema admits, any counter value a corrector can have written
InitPolicy ==
    /\ pc = "should_continue"
    /\ image_path = "image"
    /\ image = [of |-> image_path]
    /\ image_bytes = [bytes_of |-> image]
    /\ image_base64 = [base64_of |-> image]
    /\ ocr_text_extraction_result = [document_of |-> image_bytes]
    /\ llm_text_extraction_result = CHOOSE m \in TARGET_SCHEMA : TRUE
    /\ criteria \in Criteria
    /\ correction_attemps \in 0..(MAX_CORRECTION + 1)
    /\ discarded_fields = {}
    /\ extraction_calls = 0
    /\ checker_runs = 0
    /\ real_cycles = 0
    /\ attempts = 0
    /\ unscored_writes = 0
    /\ configurable = Configuration
    /\ NoBatch

NextPolicy == conditional_edge

SpecPolicy == InitPolicy /\ [][NextPolicy]_vars

\* ------------------------------------------------------ batch_run_graph
\* Pool(processes=cpu_count()).imap(run_graph, image_paths) consumed by
\* list(): the workers take the items in order and finish them in any
\* order; the iterator hands the outcomes out by index.  An item's run is
\* taken by its outcome: run_graph returns the dump of its result, or the
\* exception of a failed run leaves it.
PathPool == {"a.png", "b.png"}

RECURSIVE PathLists(_)
PathLists(n) ==
    IF n = 0 THEN {<<>>}
    ELSE PathLists(n - 1)
         \cup {Append(l, path) : l \in {k \in PathLists(n - 1) : Len(k) = n - 1},
                                 path \in PathPool}

RECURSIVE UpTo(_)
UpTo(n) == IF n = 0 THEN <<>> ELSE Append(UpTo(n - 1), n)

\* what run_graph(image_paths[i]) returns, told apart by the run that made it
run_graph(i) == [run |-> i, model_dump_of |-> image_paths[i]]

InitBatch ==
    /\ InitGraphState
    /\ configurable = Configuration
    /\ image_paths \in PathLists(MaxItems)
    /\ taskqueue = UpTo(Len(image_paths))
    /\ running = [w \in 1..cpu_count |-> 0]
    /\ outqueue = <<>>
    /\ unsorted = {}
    /\ items = <<>>
    /\ index = 1
    /\ results = <<>>
    /\ batch_pc = "collecting"
    /\ overtaken = FALSE

\* a worker takes the next item
worker_get ==
    /\ batch_pc = "collecting"
    /\ taskqueue # <<>>
    /\ \E w \in DOMAIN running :
          /\ running[w] = 0
          /\ running' = [running EXCEPT ![w] = Head(taskqueue)]
    /\ taskqueue' = Tail(taskqueue)
    /\ UNCHANGED <<graph_state, configurable, image_paths, outqueue, unsorted,
                   items, index, results, batch_pc, overtaken>>

\* a worker's run_graph call returns or raises; the outcome is put
worker_put ==
    /\ batch_pc = "collecting"
    /\ \E w \in DOMAIN running :
          /\ running[w] # 0
          /\ \E success \in BOOLEAN :
                outqueue' = Append(outqueue,
                    [i |-> running[w], success |-> success,
                     value |-> IF success THEN run_graph(running[w])
                               ELSE [raised_by |-> running[w]]])
          /\ running' = [running EXCEPT ![w] = 0]
    /\ UNCHANGED <<graph_state, configurable, image_paths, taskqueue, unsorted,
                   items, index, results, batch_pc, overtaken>>

\* the outcomes waiting in pending from index idx on, without a gap
RECURSIVE drain(_, _)
drain(idx, pending) ==
    IF \E o \in pending : o.i = idx
    THEN <<CHOOSE o \in pending : o.i = idx>> \o drain(idx + 1, pending)
    ELSE <<>>

\* imap_unordered: an outcome is handed out as it arrives
handle_result_unordered ==
    /\ batch_pc = "collecting"
    /\ outqueue # <<>>
    /\ items' = Append(items, Head(outqueue))
    /\ index' = index + 1
    /\ overtaken' = (overtaken \/ Head(outqueue).i # index)
    /\ outqueue' = Tail(outqueue)
    /\ UNCHANGED <<graph_state, configurable, image_paths, taskqueue, running,
                   unsorted, results, batch_pc>>

\* the pool's result handler gives an outcome to the imap iterator
handle_result ==
    /\ batch_pc = "collecting"
    /\ outqueue # <<>>
    /\ IF Head(outqueue).i = index
       THEN \E ready \in {<<Head(outqueue)>> \o drain(index + 1, unsorted)} :
              /\ items' = items \o ready
              /\ index' = index + Len(ready)
              /\ unsorted' = unsorted \ Range(ready)
              /\ UNCHANGED overtaken
       ELSE /\ unsorted' = unsorted \cup {Head(outqueue)}
            /\ overtaken' = TRUE
            /\ UNCHANGED <<items, index>>
    /\ outqueue' = Tail(outqueue)
    /\ UNCHANGED <<graph_state, configurable, image_paths, taskqueue, running,
                   results, batch_pc>>

\* list() takes the next outcome: a value is appended, an exception is
\* raised out of batch_run_graph (leaving the with block ends the pool)
next_item ==
    /\ batch_pc = "collecting"
    /\ items # <<>>
    /\ IF Head(items).success
       THEN /\ results' = Append(results, Head(items).value)
            /\ UNCHANGED batch_pc
       ELSE /\ batch_pc' = "raised"
            /\ UNCHANGED results
    /\ items' = Tail(items)
    /\ UNCHANGED <<graph_state, configurable, image_paths, taskqueue, running,
                   outqueue, unsorted, index, overtaken>>

\* every outcome was handed out: list() is complete, results is returned
stop_iteration ==
    /\ batch_pc = "collecting"
    /\ items = <<>>
    /\ index = Len(image_paths) + 1
    /\ batch_pc' = "returned"
    /\ UNCHANGED <<graph_state, configurable, image_paths, taskqueue, running,
                   outqueue, unsorted, items, index, results, overtaken>>

NextBatch ==
    \/ worker_get
    \/ worker_put
    \/ handle_result
    \/ next_item
    \/ stop_iteration

SpecBatch == InitBatch /\ [][NextBatch]_vars

\* ------------------------------------------------------------ properties
Scorable == {"team_names", "highlighted_player", "player_data_accuracy", "grouping"}

Meeting(crit) == {k \in Scorable : crit[k] >= CRITERIA_THRESHOLD}

\* the corrector is about to regenerate and merge
RealCycle ==
    /\ pc = "corrector"
    /\ correction_attemps < MAX_CORRECTION
    /\ fields_to_correct(criteria) # <<>>

\* the corrector is about to skip: no failing criterion maps to a field
ShortCircuit ==
    /\ pc = "corrector"
    /\ correction_attemps < MAX_CORRECTION
    /\ fields_to_correct(criteria) = <<>>

\* C1: a run performs at most MAX_CORRECTION real correction cycles,
\* whatever the scorer and the extraction backend return.
C1_BoundedCycles == real_cycles <= MAX_CORRECTION

C1_Witness == pc = "END" /\ real_cycles = MAX_CORRECTION

\* C2: when every stage returns, the run reaches END, and criteria_checker
\* has run at most MAX_CORRECTION + 1 times.
C2_Terminates ==
    /\ <>(pc = "END")
    /\ [](checker_runs <= MAX_CORRECTION + 1)

C2_Witness == pc = "END" /\ checker_runs = MAX_CORRECTION + 1

\* C3: a correction cycle leaves every field outside fields_to_correct as
\* it was, also when the regenerated result differs there.
C3_FieldScoping ==
    [][pc = "corrector" =>
          \A f \in MatchFields \ Range(fields_to_correct(criteria)) :
              llm_text_extraction_result'[f] = llm_text_extraction_result[f]]_vars

C3_Witness ==
    /\ pc = "criteria_checker"
    /\ real_cycles >= 1
    /\ discarded_fields # {}
\* C4: with the budget unspent and every criterion at or above the
\* threshold at the first scoring, should_continue returns "valid": the
\* corrector is never entered.
C4_AllMetEndsRun ==
    ~(/\ pc = "corrector"
      /\ checker_runs = 1
      /\ correction_attemps < MAX_CORRECTION
      /\ Meeting(criteria) = Scorable)

\* C5: percentage_met is 100 * (criteria meeting the threshold) / (scorable
\* criteria), the reasons entry counted in neither; 10, 10, 0, 0 gives 50.
C5_PercentageOfScorable ==
    pc = "should_continue" =>
        /\ percentage_met(criteria) * Cardinality(Scorable)
               = 100 * Cardinality(Meeting(criteria))
        /\ (/\ criteria.team_names = 10
            /\ criteria.highlighted_player = 10
            /\ criteria.player_data_accuracy = 0
            /\ criteria.grouping = 0) => percentage_met(criteria) = 50

C7_MonotonicCounter ==
    /\ correction_attemps = 0
    /\ [][/\ correction_attemps' >= correction_attemps
          /\ RealCycle => correction_attemps' = correction_attemps + 1
          /\ real_cycles' # real_cycles => correction_attemps' = correction_attemps + 1]_vars

C7_Witness ==
    /\ pc = "criteria_checker"
    /\ real_cycles = 2
    /\ correction_attemps = 2

C9_BudgetSpentIsValid ==
    [][pc = "should_continue" /\ correction_attemps >= MAX_CORRECTION
          => pc' = "END"]_vars

C9_Witness ==
    /\ pc = "END"
    /\ correction_attemps >= MAX_CORRECTION
    /\ \A k \in Scorable : criteria[k] = 0

\* C10: the short-circuit makes no extraction call, returns the result it
\* received, and leaves correction_attemps >= MAX_CORRECTION, so the next
\* should_continue returns "valid" whatever the scorer says.
C10_ShortCircuit ==
    [][ShortCircuit =>
          /\ extraction_calls' = extraction_calls
          /\ llm_text_extraction_result' = llm_text_extraction_result
          /\ correction_attemps' >= MAX_CORRECTION
          /\ \A c \in Criteria : should_continue(correction_attemps', c) = "valid"]_vars

C10_Witness ==
    /\ pc = "END"
    /\ correction_attemps > MAX_CORRECTION
    /\ real_cycles = 0
    /\ checker_runs = 2

\* C11: batch_run_graph returns one result per input path, result i being
\* the output of the run on image_paths[i], whatever the order in which the
\* workers finish.
C11_IndexPreserving ==
    /\ \A i \in DOMAIN results :
          /\ i <= Len(image_paths)
          /\ results[i] = run_graph(i)
    /\ batch_pc = "returned" => Len(results) = Len(image_paths)

C11_Witness ==
    /\ batch_pc = "returned"
    /\ Len(results) = MaxItems
    /\ overtaken

\* C12: a failed item does not abort the batch: no exception leaves
\* batch_run_graph.
C12_FailureIsolated == batch_pc # "raised"

C14_ConfiguredBudget == real_cycles <= configurable.max_correction

\* C15: the run starts at image_preprocessing; the stages before the loop
\* follow one another in the fixed order; every completion of the corrector
\* leads to an execution of criteria_checker, which leads to the decision;
\* END is entered only from the decision, on "valid".
C15_GraphOrder ==
    /\ pc = "image_preprocessing"
    /\ [][/\ pc' = "END" =>
                /\ pc = "should_continue"
                /\ should_continue(correction_attemps, criteria) = "valid"
          /\ pc = "image_preprocessing" => pc' = "format_conversion"
          /\ pc = "format_conversion" => pc' = "ocr_text_extraction"
          /\ pc = "ocr_text_extraction" => pc' = "llm_text_extraction"
          /\ pc = "llm_text_extraction" => pc' = "criteria_checker"
          /\ pc = "corrector" => pc' = "criteria_checker"
          /\ pc = "criteria_checker" =>
                /\ pc' = "should_continue"
                /\ checker_runs' = checker_runs + 1]_vars

C15_Witness ==
    /\ pc = "END"
    /\ real_cycles = 2
    /\ correction_attemps = MAX_CORRECTION + 1
    /\ checker_runs = 4

\* C16: when should_continue is evaluated, and at END, the criteria in the
\* state were produced by criteria_checker after the last write of
\* llm_text_extraction_result.
C16_ScoresAreCurrent ==
    pc \in {"should_continue", "END"} =>
        /\ unscored_writes = 0
        /\ criteria \in ScorerOutputs

C16_Witness ==
    /\ pc = "should_continue"
    /\ real_cycles = 1
    /\ extraction_calls = 2
    /\ unscored_writes = 0

\* the criteria whose score is strictly below the threshold
Failing(crit) == {k \in Scorable : crit[k] < CRITERIA_THRESHOLD}

\* where field f first occurs when the map entries of the failing criteria
\* are laid end to end in declaration order
FirstOccurrence(crit, f) ==
    LET stride == Cardinality(MatchFields) + 1
        occurrences ==
            {i * stride + j : <<i, j>> \in
                {<<a, b>> \in (DOMAIN CriteriaKeys) \X (1..Cardinality(MatchFields)) :
                    /\ CriteriaKeys[a] \in Failing(crit)
                    /\ b \in DOMAIN CRITERIA_TO_RELATED_FIELDS[CriteriaKeys[a]]
                    /\ CRITERIA_TO_RELATED_FIELDS[CriteriaKeys[a]][b] = f}}
    IN  CHOOSE first \in occurrences : \A o \in occurrences : first <= o

\* C17: fields_to_correct lists, without duplicates and in the order of
\* their first occurrence, exactly the fields the Field-Correction Map
\* gives for the criteria scored strictly below the threshold; with only
\* highlighted_player failing it is <<"me">>.  The corrector has
\* regenerated exactly when some criterion was failing.
C17_FieldsToCorrect ==
    /\ (pc = "corrector" /\ correction_attemps < MAX_CORRECTION) =>
          LET fs == fields_to_correct(criteria) IN
          /\ \A i, j \in DOMAIN fs : i # j => fs[i] # fs[j]
          /\ Range(fs) =
                UNION {Range(CRITERIA_TO_RELATED_FIELDS[k]) : k \in Failing(criteria)}
          /\ \A i, j \in DOMAIN fs :
                i < j => FirstOccurrence(criteria, fs[i]) < FirstOccurrence(criteria, fs[j])
          /\ Failing(criteria) = {"highlighted_player"} => fs = <<"me">>
    /\ (pc = "criteria_checker" /\ checker_runs = 1) =>
          ((real_cycles = 1) <=> (Failing(criteria) # {}))

C17_Witness ==
    /\ pc = "criteria_checker"
    /\ real_cycles = 1
    /\ Failing(criteria) = {"highlighted_player"}
    /\ criteria.team_names = CRITERIA_THRESHOLD
    /\ discarded_fields # {}

\* C18: the extraction result in the state conforms to the target schema,
\* cross-field constraints of Match included, after every correction merge.
C18_MergedResultConforms ==
    real_cycles >= 1 => llm_text_extraction_result \in TARGET_SCHEMA

\* C19: each stage writes only the fields it owns: image_path is never
\* written; image changes only in image_preprocessing, image_bytes and
\* image_base64 only in format_conversion, ocr_text_extraction_result only
\* in ocr_text_extraction, criteria only in criteria_checker,
\* llm_text_extraction_result and correction_attemps only in
\* llm_text_extraction and corrector; the image and OCR fields are written
\* once: each is set from None, never again, and is set when the run ends.
C19_StageOwnership ==
    [][/\ image_path' = image_path
       /\ image' # image => (pc = "image_preprocessing" /\ image = None)
       /\ image_bytes' # image_bytes => (pc = "format_conversion" /\ image_bytes = None)
       /\ image_base64' # image_base64 => (pc = "format_conversion" /\ image_base64 = None)
       /\ ocr_text_extraction_result' # ocr_text_extraction_result =>
             (pc = "ocr_text_extraction" /\ ocr_text_extraction_result = None)
       /\ criteria' # criteria => pc = "criteria_checker"
       /\ llm_text_extraction_result' # llm_text_extraction_result =>
             pc \in {"llm_text_extraction", "corrector"}
       /\ correction_attemps' # correction_attemps =>
             pc \in {"llm_text_extraction", "corrector"}
       /\ pc' = "END" =>
             /\ image' # None
             /\ image_bytes' # None
             /\ image_base64' # None
             /\ ocr_text_extraction_result' # None]_vars

C19_Witness ==
    /\ pc = "END"
    /\ image = [of |-> image_path]
    /\ ocr_text_extraction_result = [document_of |-> image_bytes]
    /\ real_cycles = 1
    /\ correction_attemps = MAX_CORRECTION + 1

\* C20: a transient failure of the OCR call is retried up to the attempt
\* ceiling before the run fails: the run fails in ocr_text_extraction only
\* once MAX_ATTEMPTS attempts have failed.
C20_OcrRetried ==
    [][(pc' = "FAILED" /\ pc = "ocr_text_extraction") => attempts' >= MAX_ATTEMPTS]_vars

\* C21: called with correction_attemps >= MAX_CORRECTION, the corrector
\* returns the result and the counter it received and makes no extraction
\* call.
C21_SpentBudgetReturnsState ==
    [][(correction_attemps >= MAX_CORRECTION /\ pc = "corrector") =>
          /\ llm_text_extraction_result' = llm_text_extraction_result
          /\ correction_attemps' = correction_attemps
          /\ extraction_calls' = extraction_calls
          /\ real_cycles' = real_cycles]_vars

C21_Witness ==
    /\ pc = "criteria_checker"
    /\ unscored_writes = 1
    /\ correction_attemps = MAX_CORRECTION
    /\ Failing(criteria) = Scorable
    /\ extraction_calls = 1

\* C22: a corrector attempt that fails leaves llm_text_extraction_result and
\* correction_attemps as they were; the counter changes only when an attempt
\* of the corrector completes, so the retried attempts of one cycle add 1
\* once.
C22_FailedAttemptKeepsState ==
    [][/\ (attempts' = attempts + 1 /\ pc = "corrector") =>
             /\ llm_text_extraction_result' = llm_text_extraction_result
             /\ correction_attemps' = correction_attemps
             /\ real_cycles' = real_cycles
       /\ correction_attemps' # correction_attemps =>
             /\ pc = "corrector"
             /\ attempts' = 0
             /\ pc' = "criteria_checker"
       /\ (real_cycles' # real_cycles /\ attempts > 0) =>
             correction_attemps' = correction_attemps + 1]_vars

C22_Witness ==
    /\ pc = "corrector"
    /\ attempts = 2
    /\ real_cycles = 1
    /\ correction_attemps = 1
    /\ Failing(criteria) # {}

C24_SquadNeverCorrected ==
    /\ \A k \in DOMAIN CRITERIA_TO_RELATED_FIELDS :
          "squad" \notin Range(CRITERIA_TO_RELATED_FIELDS[k])
    /\ [][llm_text_extraction_result # None =>
             llm_text_extraction_result'.squad = llm_text_extraction_result.squad]_vars

C24_Witness ==
    /\ pc = "criteria_checker"
    /\ real_cycles = MAX_CORRECTION
    /\ "squad" \in discarded_fields
    /\ llm_text_extraction_result.squad # <<>>
====
